---------------------------- MODULE Spec2Model ----------------------------
(***************************************************************************)
(* Model of molflux.metrics.regression.mean_squared_error:                 *)
(* the MeanSquaredError metric, a thin adapter over sklearn.metrics.       *)
(*                                                                         *)
(* Numbers.  Python floats are modelled as fixed-point numbers: a float x  *)
(* is the integer x * Scale, rounded down.  Inputs and weights are small   *)
(* integers.  np.sqrt is the fixed-point square root (rounded down), so    *)
(* a root error and a plain error are different numbers unless the error   *)
(* is 0 or 1.                                                              *)
(*                                                                         *)
(* Arrays.  An array-like is a record [ndim, v]: ndim = 1 with v a         *)
(* sequence of numbers (scalar samples), or ndim = 2 with v a sequence of  *)
(* equally long rows (multi-output samples).                               *)
(*                                                                         *)
(* Library.  sklearn.metrics.mean_squared_error, root_mean_squared_error   *)
(* and numpy.average are not part of this file; they are modelled on the   *)
(* inputs the metric's documentation admits: `multioutput` is one of the   *)
(* two named modes, or one weight per target of a multi-target input.      *)
(***************************************************************************)
EXTENDS Integers, Sequences, FiniteSets, TLC

\* ------------------------------------------------------------------ bounds
MaxSamples == 2     \* samples per call: 1..MaxSamples
MaxTargets == 2     \* target columns of a multi-output sample: 1..MaxTargets
MaxVal == 1         \* a prediction or reference value: 0..MaxVal
MaxWeight == 2      \* a sample weight or an output weight: 0..MaxWeight
Scale == 100        \* fixed-point unit: the float x is the integer x * Scale
HistMaxSamples == 1 \* SpecHist: samples per call
HistMaxTargets == 1 \* SpecHist: target columns of a multi-output sample
HistMaxWeight == 1  \* SpecHist: largest weight

VARIABLES
    self,                               \* the metric object: config_name, tag
    ROOT_MEAN_SQUARED_ERROR_AVAILABLE,  \* module-level flag, set at import
    pc,                                 \* "idle", or "done": a call has ended
    args,                               \* the keyword arguments of the last call
    out,                                \* what the last call did
    pinned                              \* history: an earlier call and what it did

vars == <<self, ROOT_MEAN_SQUARED_ERROR_AVAILABLE, pc, args, out, pinned>>

\* ------------------------------------------------------------ numpy model
RECURSIVE SumSeq(_)
SumSeq(s) == IF s = <<>> THEN 0 ELSE s[1] + SumSeq(Tail(s))

\* float(x) of an integer x
ToFloat(x) == x * Scale

RECURSIVE ISqrtBetween(_, _, _)
\* the largest r in lo..hi with r * r <= n (lo * lo <= n < (hi + 1)^2)
ISqrtBetween(lo, hi, n) ==
    IF lo >= hi THEN lo
    ELSE LET mid == (lo + hi + 1) \div 2
         IN IF mid * mid <= n THEN ISqrtBetween(mid, hi, n)
            ELSE ISqrtBetween(lo, mid - 1, n)

\* np.sqrt of a float x >= 0
np_sqrt(x) == ISqrtBetween(0, x * Scale + 1, x * Scale)

\* np.average(a, weights=w) of floats a with integer weights w, Len(w) = Len(a),
\* SumSeq(w) > 0: sum(a * w) / sum(w)
np_average(a, w) ==
    SumSeq([i \in 1..Len(a) |-> a[i] * w[i]]) \div SumSeq(w)

Ones(n) == [i \in 1..n |-> 1]

\* ---------------------------------------------------------- sklearn model
\* a score: a float, or an array of one float per target
FloatScore(x) == [kind |-> "float", v |-> <<x>>]
ArrayScore(xs) == [kind |-> "array", v |-> xs]
Raise(e) == [err |-> e, score |-> ArrayScore(<<>>)]
Return(s) == [err |-> "none", score |-> s]

\* a 1-d array is a single column
Reshape2d(y) ==
    IF y.ndim = 1 THEN [i \in 1..Len(y.v) |-> <<y.v[i]>>] ELSE y.v

NOutputs(y) == Len(Reshape2d(y)[1])

\* the weights np.average uses for `sample_weight`
SampleWeights(sample_weight, n) ==
    IF sample_weight.given THEN sample_weight.w ELSE Ones(n)

\* the weights np.average uses for `multioutput` (not "raw_values")
OutputWeights(multioutput, t) ==
    IF multioutput.mode = "weights" THEN multioutput.w ELSE Ones(t)

\* the input validation both routines share: "ValueError", "ZeroDivisionError"
\* (np.average: weights sum to zero) or "none"
CheckError(y_true, y_pred, sample_weight, multioutput) ==
    IF Len(y_true.v) # Len(y_pred.v) THEN "ValueError"
    ELSE IF sample_weight.given /\ Len(sample_weight.w) # Len(y_true.v)
         THEN "ValueError"
    ELSE IF NOutputs(y_true) # NOutputs(y_pred) THEN "ValueError"
    ELSE IF SumSeq(SampleWeights(sample_weight, Len(y_true.v))) = 0
         THEN "ZeroDivisionError"
    ELSE IF multioutput.mode = "weights" /\ SumSeq(multioutput.w) = 0
         THEN "ZeroDivisionError"
    ELSE "none"

\* np.average((y_true - y_pred) ** 2, axis=0, weights=sample_weight):
\* one mean squared error per target column
OutputErrors(y_true, y_pred, sample_weight) ==
    LET yt == Reshape2d(y_true)
        yp == Reshape2d(y_pred)
        n == Len(yt)
        w == SampleWeights(sample_weight, n)
    IN [t \in 1..Len(yt[1]) |->
           np_average([i \in 1..n |->
                          ToFloat((yt[i][t] - yp[i][t]) * (yt[i][t] - yp[i][t]))],
                      w)]

\* aggregation of per-target errors by `multioutput`
Aggregate(errors, multioutput) ==
    IF multioutput.mode = "raw_values" THEN ArrayScore(errors)
    ELSE FloatScore(np_average(errors, OutputWeights(multioutput, Len(errors))))

\* sklearn.metrics.mean_squared_error(y_true, y_pred, sample_weight=,
\* multioutput=, squared=)
mean_squared_error(y_true, y_pred, sample_weight, multioutput, squared) ==
    LET e == CheckError(y_true, y_pred, sample_weight, multioutput)
        mse == OutputErrors(y_true, y_pred, sample_weight)
    IN IF e # "none" THEN Raise(e)
       ELSE IF squared THEN Return(Aggregate(mse, multioutput))
       ELSE Return(Aggregate([t \in 1..Len(mse) |-> np_sqrt(mse[t])], multioutput))

\* sklearn.metrics.root_mean_squared_error(y_true, y_pred, sample_weight=,
\* multioutput=)
root_mean_squared_error(y_true, y_pred, sample_weight, multioutput) ==
    LET e == CheckError(y_true, y_pred, sample_weight, multioutput)
        mse == OutputErrors(y_true, y_pred, sample_weight)
    IN IF e # "none" THEN Raise(e)
       ELSE Return(Aggregate([t \in 1..Len(mse) |-> np_sqrt(mse[t])], multioutput))


\* ------------------------------------------------------- MeanSquaredError
ConfigNames == {"default", "multioutput"}
Tags == {"mean_squared_error", "mse"}

\* sample_weight=None, and the two named modes of `multioutput`
NoSampleWeight == [given |-> FALSE, w |-> <<>>]
UniformAverage == [mode |-> "uniform_average", w |-> <<>>]
RawValues == [mode |-> "raw_values", w |-> <<>>]

\* _info: the declared feature of a sample, by configuration name:
\* Sequence(Value("float")) (2: a row per sample) or Value("float") (1)
FeatureNdim(config_name) == IF config_name = "multioutput" THEN 2 ELSE 1

\* Python truthiness of `root`: True, False, or the non-empty string "deprecated"
Truthy(root) == root # "False"

\* mutant: only a true `root` counts as set by the user
RootKwargSetOnlyIfTrue(root) == root = "True"

\* root_kwarg_set_by_user = root != "deprecated"
root_kwarg_set_by_user(root) == root # "deprecated"

\* the warnings the call emits
Warnings(root) ==
    IF root_kwarg_set_by_user(root) THEN <<"FutureWarning">> ELSE <<>>

\* mutant: the default is not swapped in, `root` stays the sentinel string
EffectiveRootNoSwap(root) == root

\* `root` after "swap in with actual default value"
EffectiveRoot(root) ==
    IF root_kwarg_set_by_user(root) THEN root ELSE "False"

\* mutant: `root` is not looked at where the root routine is available
DelegateIgnoresRoot(available, kw, root) ==
    IF available
    THEN mean_squared_error(kw.references, kw.predictions,
                            kw.sample_weight, kw.multioutput, TRUE)
    ELSE mean_squared_error(kw.references, kw.predictions,
                            kw.sample_weight, kw.multioutput, ~Truthy(root))

\* mutant: sample_weight is not passed on
DelegateNoSampleWeight(available, kw, root) ==
    IF available
    THEN IF Truthy(root)
         THEN root_mean_squared_error(kw.references, kw.predictions,
                                      NoSampleWeight, kw.multioutput)
         ELSE mean_squared_error(kw.references, kw.predictions,
                                 NoSampleWeight, kw.multioutput, TRUE)
    ELSE mean_squared_error(kw.references, kw.predictions,
                            NoSampleWeight, kw.multioutput, ~Truthy(root))

\* mutant: multioutput is not passed on (the library's default is used)
DelegateNoMultioutput(available, kw, root) ==
    IF available
    THEN IF Truthy(root)
         THEN root_mean_squared_error(kw.references, kw.predictions,
                                      kw.sample_weight, UniformAverage)
         ELSE mean_squared_error(kw.references, kw.predictions,
                                 kw.sample_weight, UniformAverage, TRUE)
    ELSE mean_squared_error(kw.references, kw.predictions,
                            kw.sample_weight, UniformAverage, ~Truthy(root))

\* mutant: the legacy call passes squared=root
DelegateSquaredIsRoot(available, kw, root) ==
    IF available
    THEN IF Truthy(root)
         THEN root_mean_squared_error(kw.references, kw.predictions,
                                      kw.sample_weight, kw.multioutput)
         ELSE mean_squared_error(kw.references, kw.predictions,
                                 kw.sample_weight, kw.multioutput, TRUE)
    ELSE mean_squared_error(kw.references, kw.predictions,
                            kw.sample_weight, kw.multioutput, Truthy(root))

\* mutant: the root is taken of the aggregated mean squared error
DelegateRootOfAggregate(available, kw, root) ==
    LET r == mean_squared_error(kw.references, kw.predictions,
                                kw.sample_weight, kw.multioutput, TRUE)
    IN IF Truthy(root) /\ r.err = "none"
       THEN Return([kind |-> r.score.kind,
                    v |-> [i \in 1..Len(r.score.v) |-> np_sqrt(r.score.v[i])]])
       ELSE r

\* the library call the method makes, chosen by the capability flag and `root`
Delegate(available, kw, root) ==
    IF available
    THEN IF Truthy(root)
         THEN root_mean_squared_error(kw.references, kw.predictions,
                                      kw.sample_weight, kw.multioutput)
         ELSE mean_squared_error(kw.references, kw.predictions,
                                 kw.sample_weight, kw.multioutput, TRUE)
    ELSE mean_squared_error(kw.references, kw.predictions,
                            kw.sample_weight, kw.multioutput, ~Truthy(root))

\* mutant: the key is the metric's name, not its tag
ResultMappingByName(slf, score) == "mean_squared_error" :> score

NoResult == <<>>

\* return {self.tag: score}
ResultMapping(slf, score) == slf.tag :> score

\* mutant: the library's exception is caught and raised again as the metric's own
OutcomeWrapped(slf, warned, r) ==
    [self |-> slf,
     warnings |-> warned,
     raised |-> IF r.err = "none" THEN "none" ELSE "MetricError",
     returned |-> r.err = "none",
     result |-> IF r.err = "none" THEN ResultMapping(slf, r.score) ELSE NoResult]

\* what the call leaves behind: the library's exception, not caught, or the mapping
Outcome(slf, warned, r) ==
    [self |-> slf,
     warnings |-> warned,
     raised |-> r.err,
     returned |-> r.err = "none",
     result |-> IF r.err = "none" THEN ResultMapping(slf, r.score) ELSE NoResult]

\* mutant: a call for the root renames the metric
_scoreRetags(slf, available, kw) ==
    Outcome(IF kw.root = "True"
            THEN [slf EXCEPT !.tag = "root_mean_squared_error"] ELSE slf,
            Warnings(kw.root), Delegate(available, kw, EffectiveRoot(kw.root)))

\* MeanSquaredError._score(predictions=, references=, sample_weight=,
\* multioutput=, root=)
_score(slf, available, kw) ==
    Outcome(slf, Warnings(kw.root), Delegate(available, kw, EffectiveRoot(kw.root)))

\* ------------------------------------------------------------ input domain
Vals == 0..MaxVal

SeqsOf(S, maxLen) == UNION {[1..n -> S] : n \in 1..maxLen}

\* the array-likes a configuration's feature declaration admits
Arrays(config_name, maxSamples, maxTargets) ==
    IF FeatureNdim(config_name) = 1
    THEN {[ndim |-> 1, v |-> s] : s \in SeqsOf(Vals, maxSamples)}
    ELSE {[ndim |-> 2, v |-> m] :
             m \in UNION {[1..n -> [1..t -> Vals]] :
                             n \in 1..maxSamples, t \in 1..maxTargets}}

SampleWeightArgs(maxSamples, maxWeight) ==
    {NoSampleWeight}
        \cup {[given |-> TRUE, w |-> s] : s \in SeqsOf(0..maxWeight, maxSamples)}

\* `multioutput`: a named mode, or one weight per target of a multi-target input
MultioutputArgs(y_true, maxWeight) ==
    {UniformAverage, RawValues}
        \cup (IF NOutputs(y_true) >= 2
              THEN {[mode |-> "weights", w |-> s] :
                       s \in [1..NOutputs(y_true) -> 0..maxWeight]}
              ELSE {})

RootArgs == {"deprecated", "True", "False"}

NoCall ==
    [predictions |-> [ndim |-> 1, v |-> <<>>],
     references |-> [ndim |-> 1, v |-> <<>>],
     sample_weight |-> NoSampleWeight,
     multioutput |-> UniformAverage,
     root |-> "deprecated"]

NoOutcome(slf) ==
    [self |-> slf, warnings |-> <<>>, raised |-> "none", returned |-> FALSE,
     result |-> NoResult]

\* ---------------------------------------------------------------- actions
Init ==
    /\ self \in [config_name : ConfigNames, tag : Tags]
    /\ ROOT_MEAN_SQUARED_ERROR_AVAILABLE \in BOOLEAN
    /\ pc = "idle"
    /\ args = NoCall
    /\ out = NoOutcome(self)
    /\ pinned = [set |-> FALSE, self |-> self, args |-> NoCall,
                 out |-> NoOutcome(self)]

\* one call of compute with keyword arguments kw, from its entry to its return
\* or raise; with pin, the call, the metric as it was before it and what the
\* call did are remembered in the history variable, if none is yet
Call(kw, pin) ==
    LET o == _score(self, ROOT_MEAN_SQUARED_ERROR_AVAILABLE, kw)
    IN /\ pc' = "done"
       /\ args' = kw
       /\ out' = o
       /\ self' = o.self
       /\ pinned' = IF pin /\ ~pinned.set
                    THEN [set |-> TRUE, self |-> self, args |-> kw, out |-> o]
                    ELSE pinned
       /\ UNCHANGED ROOT_MEAN_SQUARED_ERROR_AVAILABLE

CallWith(maxSamples, maxTargets, maxWeight, pins) ==
    /\ pc = "idle"
    /\ \E p \in Arrays(self.config_name, maxSamples, maxTargets),
          r \in Arrays(self.config_name, maxSamples, maxTargets),
          sw \in SampleWeightArgs(maxSamples, maxWeight),
          rt \in RootArgs,
          pin \in pins :
           \E mo \in MultioutputArgs(r, maxWeight) :
               Call([predictions |-> p, references |-> r, sample_weight |-> sw,
                     multioutput |-> mo, root |-> rt], pin)

Compute == CallWith(MaxSamples, MaxTargets, MaxWeight, {FALSE})

\* the caller has the result (or the exception) and the warnings; the metric
\* keeps nothing of the call and can be called again
Release ==
    /\ pc = "done"
    /\ pc' = "idle"
    /\ args' = NoCall
    /\ out' = NoOutcome(self)
    /\ UNCHANGED <<self, ROOT_MEAN_SQUARED_ERROR_AVAILABLE, pinned>>

Next == Compute \/ Release

Spec == Init /\ [][Next]_vars

\* calls on a smaller input domain, with one earlier call remembered
ComputeHist == CallWith(HistMaxSamples, HistMaxTargets, HistMaxWeight, BOOLEAN)

NextHist == ComputeHist \/ Release

SpecHist == Init /\ [][NextHist]_vars

\* ----------------------------------------------------------------- claims
Done == pc = "done"
Returned == Done /\ out.returned
Score == out.result[self.tag]
Targets == NOutputs(args.references)

\* what the same metric answers to the keyword arguments kw
Answer(kw) == _score(self, ROOT_MEAN_SQUARED_ERROR_AVAILABLE, kw)

SameAnswer(a, b) ==
    a.raised = b.raised /\ a.returned = b.returned /\ a.result = b.result

\* the square root of a score, element by element
SqrtScore(s) == [kind |-> s.kind, v |-> [i \in 1..Len(s.v) |-> np_sqrt(s.v[i])]]

\* the sample-weighted mean of the squared differences of target column t of
\* the last call, as a float: sum(w_i * (pred_i - ref_i)^2) / sum(w_i)
WeightedMeanSquare(t) ==
    LET yp == Reshape2d(args.predictions)
        yt == Reshape2d(args.references)
        n == Len(yt)
        w == IF args.sample_weight.given THEN args.sample_weight.w
             ELSE [i \in 1..n |-> 1]
    IN (Scale * SumSeq([i \in 1..n |->
                           w[i] * (yp[i][t] - yt[i][t]) * (yp[i][t] - yt[i][t])]))
           \div SumSeq(w)

\* the sum of the sample weights of the last call, when they were given
GivenWeightSum ==
    IF args.sample_weight.given THEN SumSeq(args.sample_weight.w) ELSE 1

\* the per-target errors of the last call: mean squared errors, or their roots
\* when the call asked for the root
TargetErrors ==
    [t \in 1..Targets |->
        IF args.root = "True" THEN np_sqrt(WeightedMeanSquare(t))
        ELSE WeightedMeanSquare(t)]

Near(x, y) == x - y \in {-1, 0, 1}

Arr1(v) == [ndim |-> 1, v |-> v]
Arr2(v) == [ndim |-> 2, v |-> v]
Kw(p, r, mo) ==
    [predictions |-> p, references |-> r, sample_weight |-> NoSampleWeight,
     multioutput |-> mo, root |-> "deprecated"]

\* the documented examples, in units of 1/2 (so that the errors are 4 times
\* the documented 0.375, [0.416..., 1.], 0.708... and 0.825)
DocScalar == Kw(Arr1(<<5, 0, 4, 16>>), Arr1(<<6, -1, 4, 14>>), UniformAverage)
DocMulti(mo) ==
    Kw(Arr2(<< <<0, 4>>, <<-2, 4>>, <<16, -10>> >>),
       Arr2(<< <<1, 2>>, <<-2, 2>>, <<14, -12>> >>), mo)
DocExamples ==
    /\ Answer(DocScalar).result[self.tag] = FloatScore((4 * 375 * Scale) \div 1000)
    /\ LET raw == Answer(DocMulti(RawValues)).result[self.tag]
       IN /\ raw.kind = "array" /\ Len(raw.v) = 2
          /\ Near(raw.v[1], (5 * Scale) \div 3) /\ raw.v[2] = 4 * Scale
    /\ Near(Answer(DocMulti(UniformAverage)).result[self.tag].v[1],
            (17 * Scale) \div 6)
    /\ Near(Answer(DocMulti([mode |-> "weights", w |-> <<3, 7>>])).result[self.tag].v[1],
            (4 * 825 * Scale) \div 1000)

\* the score the same call returns without the root (root=False)
PlainAnswer == Answer([args EXCEPT !.root = "False"])
PlainScore == PlainAnswer.result[self.tag]

\* C1 (as claimed): whenever a call with root=True returns, its score is the
\* square root of the score of the same call with root=False, and of the same
\* call with root omitted, under every multioutput mode.
C1_RootIsSqrtOfPlain ==
    (Returned /\ args.root = "True") =>
        /\ Score = SqrtScore(PlainScore)
        /\ Score = SqrtScore(Answer([args EXCEPT !.root = "deprecated"]).result[self.tag])

\* C1 (amended): whenever a call with root=True returns and either there is a
\* single target (scalar samples, or one column, under a named mode) or
\* multioutput is "raw_values", its score is the square root, element by
\* element, of the score of the same call with root=False and with root omitted.
C1_RootIsSqrtOfPlainPerTarget ==
    (Returned /\ args.root = "True"
        /\ (Targets = 1 \/ args.multioutput.mode = "raw_values")) =>
        /\ Score = SqrtScore(PlainScore)
        /\ Score = SqrtScore(Answer([args EXCEPT !.root = "deprecated"]).result[self.tag])

\* a root=True call on two targets under "raw_values" whose root errors differ
\* from the plain errors
C1_Witness ==
    /\ Returned /\ args.root = "True"
    /\ Targets = 2 /\ args.multioutput.mode = "raw_values"
    /\ Score # PlainScore
    /\ Score = SqrtScore(PlainScore)

\* C2: a call emits exactly one FutureWarning if root was passed (True or
\* False) and none if it was omitted; and the warning changes nothing else:
\* the call returns or raises as the same call with root omitted does.
C2_WarnsIffRootPassed ==
    Done =>
        /\ (args.root \in {"True", "False"}) => out.warnings = <<"FutureWarning">>
        /\ (args.root = "deprecated") => out.warnings = <<>>
        /\ out.returned = Answer([args EXCEPT !.root = "deprecated"]).returned
        /\ out.raised = Answer([args EXCEPT !.root = "deprecated"]).raised

\* a call that passed root=False, warned once and returned a result
C2_Witness ==
    /\ Returned /\ args.root = "False"
    /\ Len(out.warnings) = 1
    /\ DOMAIN out.result = {self.tag}

\* C3: a call on scalar samples with root omitted or False that returns, had
\* weights that do not sum to zero and returns
\* sum(w_i * (pred_i - ref_i)^2) / sum(w_i), with w_i = 1 when sample_weight is
\* omitted: as a float under "uniform_average", as an array of that one number
\* under "raw_values"; and the documented example gives 0.375.
C3_WeightedMeanOfSquares ==
    /\ (Returned /\ args.predictions.ndim = 1 /\ args.root # "True") =>
           /\ GivenWeightSum > 0
           /\ Score = [kind |-> IF args.multioutput.mode = "raw_values"
                                THEN "array" ELSE "float",
                       v |-> <<WeightedMeanSquare(1)>>]
    /\ (pc = "idle") => DocExamples

\* a weighted call on scalar samples, with unequal weights and unequal squared
\* differences, that returned the weighted mean
C3_Witness ==
    /\ Returned /\ args.predictions.ndim = 1 /\ args.root = "deprecated"
    /\ args.sample_weight.given /\ args.sample_weight.w = <<1, 2>>
    /\ args.predictions.v = <<1, 0>> /\ args.references.v = <<0, 0>>
    /\ Score = FloatScore(Scale \div 3)

\* the sum of the output weights of the last call, when they were given
OutputWeightSum == SumSeq(args.multioutput.w)

\* C4 (as claimed): on multi-output samples with T target columns a call that
\* returns, returns under "raw_values" the array of the T per-target errors,
\* under "uniform_average" their unweighted mean, and under explicit weights
\* their combination sum(w_t * e_t), which scales with the weights.
C4_WeightsScaleResult ==
    (Returned /\ args.predictions.ndim = 2) =>
        /\ GivenWeightSum > 0
        /\ args.multioutput.mode = "raw_values" =>
               Score = ArrayScore(TargetErrors)
        /\ args.multioutput.mode = "uniform_average" =>
               Score = FloatScore(SumSeq(TargetErrors) \div Targets)
        /\ args.multioutput.mode = "weights" =>
               Score = FloatScore(SumSeq([t \in 1..Targets |->
                                             args.multioutput.w[t] * TargetErrors[t]]))

\* C4 (amended): on multi-output samples with T target columns a call that
\* returns, returns under "raw_values" the array of the T per-target errors,
\* under "uniform_average" their unweighted mean, and under explicit weights
\* (one per target, T >= 2) it had weights that do not sum to zero and returns
\* their weighted mean sum(w_t * e_t) / sum(w_t), which is the score the same
\* call returns with every weight doubled.
C4_WeightedMeanOfTargets ==
    (Returned /\ args.predictions.ndim = 2) =>
        /\ GivenWeightSum > 0
        /\ args.multioutput.mode = "raw_values" =>
               Score = ArrayScore(TargetErrors) /\ Len(Score.v) = Targets
        /\ args.multioutput.mode = "uniform_average" =>
               Score = FloatScore(SumSeq(TargetErrors) \div Targets)
        /\ args.multioutput.mode = "weights" =>
               /\ OutputWeightSum > 0
               /\ Score = FloatScore(SumSeq([t \in 1..Targets |->
                                                args.multioutput.w[t] * TargetErrors[t]])
                                         \div OutputWeightSum)
               /\ Score = Answer([args EXCEPT !.multioutput.w =
                                     [t \in 1..Targets |-> 2 * @[t]]]).result[self.tag]

\* a call with output weights <<2, 1>>, not summing to 1, on two targets with
\* errors 1 and 0, that returned 2/3 (and not 2)
C4_Witness ==
    /\ Returned /\ args.predictions.ndim = 2 /\ args.root = "deprecated"
    /\ args.multioutput.mode = "weights" /\ args.multioutput.w = <<2, 1>>
    /\ TargetErrors = <<Scale, 0>>
    /\ Score = FloatScore((2 * Scale) \div 3)

\* the last call's predictions and references differ in length or in the
\* number of target columns
Mismatched ==
    \/ Len(args.predictions.v) # Len(args.references.v)
    \/ NOutputs(args.predictions) # NOutputs(args.references)

\* C5: a call whose predictions and references differ in length or in target
\* count returns no result mapping and raises ValueError; and what any call
\* raises is what the library routine it called raised, unchanged.
C5_MismatchRaisesLibraryError ==
    Done =>
        /\ Mismatched => ~out.returned /\ out.result = NoResult
                             /\ out.raised = "ValueError"
        /\ out.raised = Delegate(ROOT_MEAN_SQUARED_ERROR_AVAILABLE, args,
                                 EffectiveRoot(args.root)).err
        /\ out.returned = (out.raised = "none")

\* a call with two predictions and one reference that raised ValueError
C5_Witness ==
    /\ Done /\ Len(args.predictions.v) = 2 /\ Len(args.references.v) = 1
    /\ out.raised = "ValueError" /\ ~out.returned

\* C6: a call that returns, returns a mapping with exactly one key, the
\* metric's tag, whose value is a float, or under "raw_values" an array of one
\* float per target, whatever root, sample_weight, multioutput and the library
\* path are.
C6_OneEntryKeyedByTag ==
    Returned =>
        /\ DOMAIN out.result = {self.tag}
        /\ Cardinality(DOMAIN out.result) = 1
        /\ IF args.multioutput.mode = "raw_values"
           THEN Score.kind = "array" /\ Len(Score.v) = Targets
           ELSE Score.kind = "float" /\ Len(Score.v) = 1

\* a call of a metric tagged "mse" that returned {"mse": an array of two}
C6_Witness ==
    /\ Returned /\ self.tag = "mse"
    /\ DOMAIN out.result = {"mse"}
    /\ Score.kind = "array" /\ Len(Score.v) = 2

\* C7: whatever a call does on the path its library offers (it returns a
\* mapping, or raises), the same call does on the other path: the metric with
\* the capability flag negated returns the same mapping or raises the same error.
C7_PathsAgree ==
    Done => SameAnswer(out, _score(self, ~ROOT_MEAN_SQUARED_ERROR_AVAILABLE, args))

\* a root=True call on the legacy path, on two targets under "uniform_average",
\* whose score is neither the plain score nor its square root
C7_Witness ==
    /\ Returned /\ ~ROOT_MEAN_SQUARED_ERROR_AVAILABLE /\ args.root = "True"
    /\ Targets = 2 /\ args.multioutput.mode = "uniform_average"
    /\ Score # PlainScore /\ Score # SqrtScore(PlainScore)

\* the per-target mean squared errors of the last call: what the same call
\* returns with root=False under "raw_values"
PlainRawErrors ==
    Answer([args EXCEPT !.root = "False", !.multioutput = RawValues]).result[self.tag].v

\* C9: a call with root=True on multi-output samples that returns, returns the
\* per-target mean squared errors, each square-rooted first, and then
\* combined by the multioutput mode: the array of the roots under "raw_values",
\* their mean under "uniform_average", their weighted mean under weights.
C9_RootPerTargetThenAggregate ==
    (Returned /\ args.root = "True" /\ args.predictions.ndim = 2) =>
        LET roots == [t \in 1..Targets |-> np_sqrt(PlainRawErrors[t])]
        IN /\ args.multioutput.mode = "raw_values" => Score = ArrayScore(roots)
           /\ args.multioutput.mode = "uniform_average" =>
                  Score = FloatScore(SumSeq(roots) \div Targets)
           /\ args.multioutput.mode = "weights" =>
                  /\ OutputWeightSum > 0
                  /\ Score = FloatScore(SumSeq([t \in 1..Targets |->
                                                   args.multioutput.w[t] * roots[t]])
                                            \div OutputWeightSum)

\* a root=True call with output weights <<1, 2>> on targets with mean squared
\* errors 1/2 and 0, whose score is a third of the root of 1/2 and not the
\* root of a third of 1/2
C9_Witness ==
    /\ Returned /\ args.root = "True" /\ args.predictions.ndim = 2
    /\ args.multioutput.mode = "weights" /\ args.multioutput.w = <<1, 2>>
    /\ PlainRawErrors = <<Scale \div 2, 0>>
    /\ Score = FloatScore(np_sqrt(Scale \div 2) \div 3)
    /\ Score # SqrtScore(PlainScore)

\* C10: a call with root omitted does what the same call with root=False does
\* (the same mapping, or the same error), on either library path, and is not
\* the root: the two calls differ only in the warning, which only the call
\* with root=False emits.
C10_OmittedRootIsFalse ==
    (Done /\ args.root = "deprecated") =>
        /\ SameAnswer(out, PlainAnswer)
        /\ out.warnings = <<>> /\ PlainAnswer.warnings = <<"FutureWarning">>
        /\ SameAnswer(_score(self, ~ROOT_MEAN_SQUARED_ERROR_AVAILABLE, args),
                      _score(self, ~ROOT_MEAN_SQUARED_ERROR_AVAILABLE,
                             [args EXCEPT !.root = "False"]))

\* a call with root omitted whose score differs from the score the call
\* with root=True returns
C10_Witness ==
    /\ Returned /\ args.root = "deprecated"
    /\ Score = PlainScore
    /\ Score # Answer([args EXCEPT !.root = "True"]).result[self.tag]

=============================================================================
